---- MODULE Spec2Model ----
(***************************************************************************)
(* Model of cmd/keyaddr/serve.py: a static file server built from the      *)
(* Python standard library.  The script replaces the extension table of    *)
(* http.server.SimpleHTTPRequestHandler, binds a socketserver.TCPServer on *)
(* port 8080, prints one line and calls serve_forever().                   *)
(*                                                                         *)
(* Strings whose characters matter (URL paths, file-system paths, file     *)
(* extensions) are sequences of one-character strings, so that splitting,  *)
(* unquoting, normalising and lower-casing are computed, not assumed.      *)
(* MIME types, methods and protocol versions are atomic strings.           *)
(*                                                                         *)
(* The behaviour of the handler and of the server loop is that of the      *)
(* library classes the script instantiates (http.server, socketserver,     *)
(* posixpath, urllib.parse, mimetypes).  guess_type changed in CPython     *)
(* 3.9: the script does not say which library it runs with, so both        *)
(* variants are behaviours of the model (usesMimetypes).                   *)
(*                                                                         *)
(* Environment: clients speak HTTP/1.x (three-word request lines, or       *)
(* malformed ones) and send no conditional headers; the files are          *)
(* readable, are not changed while the server runs, and there are no       *)
(* symbolic links.                                                         *)
(***************************************************************************)
EXTENDS Integers, Sequences, FiniteSets, Bags, TLC

\* Number of client connections made during one run of the model.
MaxConns == 2
\* Number of connections the listening socket holds before accept().
MaxBacklog == 2

VARIABLES
    pc,             \* position of the script: L21, L34, L36, select, process, exited
    PORT,           \* module global PORT (line 17)
    extensions_map, \* class attribute Handler.extensions_map
    usesMimetypes,  \* library variant: guess_type falls back to mimetypes (CPython >= 3.9)
    portState,      \* environment: "free", "in_use" or "denied"
    socketState,    \* httpd.socket: "none", "listening", "closed"
    binds,          \* number of calls of socket.bind
    stdout,         \* lines printed by the script
    exitStatus,     \* process exit status, -1 while running
    backlog,        \* connections completed by the kernel, not yet accepted
    active,         \* connections accepted and not yet shut down
    nextId,         \* id of the next client connection
    accepted,       \* ids in the order get_request() returned them
    answered,       \* ids in the order their handling was completed
    responses       \* bag of [req, resp] pairs observed by clients

vars == <<pc, PORT, extensions_map, usesMimetypes, portState, socketState, binds,
          stdout, exitStatus, backlog, active, nextId, accepted, answered,
          responses>>

----------------------------------------------------------------------------
(* Character-level string helpers (Python str methods used by the library) *)

UpperChars == <<"A","B","C","D","E","F","G","H","I","J","K","L","M",
                "N","O","P","Q","R","S","T","U","V","W","X","Y","Z">>
LowerChars == <<"a","b","c","d","e","f","g","h","i","j","k","l","m",
                "n","o","p","q","r","s","t","u","v","w","x","y","z">>

\* str.lower() on one character
LowerChar(c) ==
    IF \E i \in 1..26 : UpperChars[i] = c
    THEN LowerChars[CHOOSE i \in 1..26 : UpperChars[i] = c]
    ELSE c

\* str.lower()
lower(s) == [i \in 1..Len(s) |-> LowerChar(s[i])]

\* str.find(c) + 1 : index of the first c, 0 when absent
find(s, c) ==
    LET I == {i \in 1..Len(s) : s[i] = c}
    IN  IF I = {} THEN 0 ELSE CHOOSE i \in I : \A j \in I : i <= j

\* str.rfind(c) + 1 : index of the last c, 0 when absent
rfind(s, c) ==
    LET I == {i \in 1..Len(s) : s[i] = c}
    IN  IF I = {} THEN 0 ELSE CHOOSE i \in I : \A j \in I : j <= i

\* s.split(c, 1)[0]
SplitFirst(s, c) ==
    IF find(s, c) = 0 THEN s ELSE SubSeq(s, 1, find(s, c) - 1)

\* s.split(c)
RECURSIVE split(_, _)
split(s, c) ==
    IF find(s, c) = 0 THEN <<s>>
    ELSE <<SubSeq(s, 1, find(s, c) - 1)>>
         \o split(SubSeq(s, find(s, c) + 1, Len(s)), c)

\* c.join(comps)
RECURSIVE join(_, _)
join(comps, c) ==
    IF comps = <<>> THEN <<>>
    ELSE IF Len(comps) = 1 THEN comps[1]
    ELSE comps[1] \o <<c>> \o join(Tail(comps), c)

\* s.endswith(c)
endswith(s, c) == Len(s) > 0 /\ s[Len(s)] = c

\* s.startswith(c)
startswith(s, c) == Len(s) > 0 /\ s[1] = c

\* the percent escapes that occur in the modelled URLs: %2e, %2E, %2f, %2F
HexDecode(h1, h2) ==
    IF h1 = "2" /\ h2 \in {"e", "E"} THEN "."
    ELSE IF h1 = "2" /\ h2 \in {"f", "F"} THEN "/"
    ELSE ""

\* urllib.parse.unquote
RECURSIVE unquote(_)
unquote(s) ==
    IF s = <<>> THEN <<>>
    ELSE IF Len(s) >= 3 /\ s[1] = "%" /\ HexDecode(s[2], s[3]) # ""
    THEN <<HexDecode(s[2], s[3])>> \o unquote(SubSeq(s, 4, Len(s)))
    ELSE <<s[1]>> \o unquote(Tail(s))

\* posixpath.splitext: <<root, ext>>; leading dots of the file name are not
\* an extension
splitext(p) ==
    LET sepIndex == rfind(p, "/")
        dotIndex == rfind(p, ".")
    IN  IF /\ dotIndex > sepIndex
           /\ \E k \in (sepIndex + 1)..(dotIndex - 1) : p[k] # "."
        THEN <<SubSeq(p, 1, dotIndex - 1), SubSeq(p, dotIndex, Len(p))>>
        ELSE <<p, <<>> >>

Dot == <<".">>
DotDot == <<".", ".">>

\* the loop of posixpath.normpath over the components
RECURSIVE NormComps(_, _, _)
NormComps(comps, new_comps, initial_slashes) ==
    IF comps = <<>> THEN new_comps
    ELSE LET comp == Head(comps)
         IN  IF comp = <<>> \/ comp = Dot
             THEN NormComps(Tail(comps), new_comps, initial_slashes)
             ELSE IF \/ comp # DotDot
                     \/ (initial_slashes = 0 /\ new_comps = <<>>)
                     \/ (new_comps # <<>> /\ new_comps[Len(new_comps)] = DotDot)
             THEN NormComps(Tail(comps), Append(new_comps, comp), initial_slashes)
             ELSE IF new_comps # <<>>
             THEN NormComps(Tail(comps), SubSeq(new_comps, 1, Len(new_comps) - 1),
                            initial_slashes)
             ELSE NormComps(Tail(comps), new_comps, initial_slashes)

\* posixpath.normpath
normpath(path) ==
    IF path = <<>> THEN Dot
    ELSE LET initial_slashes ==
                 IF ~startswith(path, "/") THEN 0
                 ELSE IF /\ Len(path) >= 2 /\ path[2] = "/"
                         /\ ~(Len(path) >= 3 /\ path[3] = "/")
                 THEN 2 ELSE 1
             joined == join(NormComps(split(path, "/"), <<>>, initial_slashes), "/")
             result == [i \in 1..initial_slashes |-> "/"] \o joined
         IN  IF result = <<>> THEN Dot ELSE result

----------------------------------------------------------------------------
(* The extension table of the script and the library tables it replaces   *)

ext_manifest == <<".", "m", "a", "n", "i", "f", "e", "s", "t">>
ext_html == <<".", "h", "t", "m", "l">>
ext_png == <<".", "p", "n", "g">>
ext_jpg == <<".", "j", "p", "g">>
ext_svg == <<".", "s", "v", "g">>
ext_css == <<".", "c", "s", "s">>
ext_js == <<".", "j", "s">>
ext_wasm == <<".", "w", "a", "s", "m">>
ext_txt == <<".", "t", "x", "t">>
ext_htm == <<".", "h", "t", "m">>
ext_gz == <<".", "g", "z">>

\* variant of ExtTable: the '.wasm' line is left out
ExtTable_without_wasm ==
    (ext_manifest :> "text/cache-manifest") @@
    (ext_html :> "text/html") @@
    (ext_png :> "image/png") @@
    (ext_jpg :> "image/jpg") @@
    (ext_svg :> "image/svg+xml") @@
    (ext_css :> "text/css") @@
    (ext_js :> "application/x-javascript") @@
    (<<>> :> "application/octet-stream")

\* the dict literal assigned to Handler.extensions_map
ExtTable ==
    (ext_manifest :> "text/cache-manifest") @@
    (ext_html :> "text/html") @@
    (ext_png :> "image/png") @@
    (ext_jpg :> "image/jpg") @@
    (ext_svg :> "image/svg+xml") @@
    (ext_css :> "text/css") @@
    (ext_js :> "application/x-javascript") @@
    (ext_wasm :> "application/wasm") @@
    (<<>> :> "application/octet-stream")

\* SimpleHTTPRequestHandler.extensions_map as the library ships it (an
\* excerpt): the encodings table since CPython 3.9, a copy of
\* mimetypes.types_map plus the '' default before.
LibraryDefaultMap(mimetypesFallback) ==
    IF mimetypesFallback
    THEN (ext_gz :> "application/gzip")
    ELSE (ext_txt :> "text/plain") @@ (ext_html :> "text/html") @@
         (<<>> :> "application/octet-stream")

\* mimetypes.types_map, the entries that the modelled file names can reach
MimeTypesMap ==
    (ext_txt :> "text/plain") @@ (ext_htm :> "text/html")

\* mimetypes.guess_type(path)[0]; "" stands for None
mimetypes_guess_type(path) ==
    LET ext == splitext(path)[2]
    IN  IF ext \in DOMAIN MimeTypesMap THEN MimeTypesMap[ext]
        ELSE IF lower(ext) \in DOMAIN MimeTypesMap THEN MimeTypesMap[lower(ext)]
        ELSE ""

\* variant of guess_type: the extension is looked up as written only
guess_type_exact(path, map, mimetypesFallback) ==
    LET ext == splitext(path)[2]
    IN  IF ext \in DOMAIN map THEN map[ext]
        ELSE IF mimetypesFallback
        THEN IF mimetypes_guess_type(path) # ""
             THEN mimetypes_guess_type(path)
             ELSE "application/octet-stream"
        ELSE map[<<>>]

\* SimpleHTTPRequestHandler.guess_type: the extension as written, then
\* lower-cased, then the library's fallback
guess_type(path, map, mimetypesFallback) ==
    LET ext == splitext(path)[2]
    IN  IF ext \in DOMAIN map THEN map[ext]
        ELSE IF lower(ext) \in DOMAIN map THEN map[lower(ext)]
        ELSE IF mimetypesFallback
        THEN IF mimetypes_guess_type(path) # ""
             THEN mimetypes_guess_type(path)
             ELSE "application/octet-stream"
        ELSE map[<<>>]

----------------------------------------------------------------------------
(* The file system the server runs in                                      *)

\* os.getcwd() at launch: the served root
cwd == <<"/", "s", "r", "v">>

File(data) == [kind |-> "file", data |-> data]
Dir == [kind |-> "dir", data |-> ""]

\* Files and directories by absolute path.  /secret.txt and /n.txt lie
\* outside the served root; n.txt also exists inside it.
FS ==
    (<<"/", "s", "r", "v">> :> Dir) @@
    (<<"/", "s", "r", "v", "/", "a", ".", "w", "a", "s", "m">> :> File("wasm bytes")) @@
    (<<"/", "s", "r", "v", "/", "a", ".", "j", "s">> :> File("js bytes")) @@
    (<<"/", "s", "r", "v", "/", "a", ".", "h", "t", "m", "l">> :> File("html bytes")) @@
    (<<"/", "s", "r", "v", "/", "a", ".", "p", "n", "g">> :> File("png bytes")) @@
    (<<"/", "s", "r", "v", "/", "a", ".", "j", "p", "g">> :> File("jpg bytes")) @@
    (<<"/", "s", "r", "v", "/", "a", ".", "s", "v", "g">> :> File("svg bytes")) @@
    (<<"/", "s", "r", "v", "/", "a", ".", "c", "s", "s">> :> File("css bytes")) @@
    (<<"/", "s", "r", "v", "/", "a", ".", "m", "a", "n", "i", "f", "e", "s", "t">>
        :> File("manifest bytes")) @@
    (<<"/", "s", "r", "v", "/", "n", ".", "t", "x", "t">> :> File("txt bytes")) @@
    (<<"/", "s", "r", "v", "/", "R", "E", "A", "D", "M", "E">> :> File("readme bytes")) @@
    (<<"/", "s", "r", "v", "/", "A", ".", "W", "A", "S", "M">> :> File("upper wasm bytes")) @@
    (<<"/", "s", "r", "v", "/", ".", "j", "s">> :> File("dotfile bytes")) @@
    (<<"/", "s", "r", "v", "/", "d">> :> Dir) @@
    (<<"/", "s", "r", "v", "/", "d", "/", "i", "n", "d", "e", "x", ".", "h", "t", "m", "l">>
        :> File("index bytes")) @@
    (<<"/", "s", "r", "v", "/", "e">> :> Dir) @@
    (<<"/", "s", "e", "c", "r", "e", "t", ".", "t", "x", "t">> :> File("outside secret bytes")) @@
    (<<"/", "n", ".", "t", "x", "t">> :> File("outside txt bytes"))

\* the kernel's resolution of an absolute path without symbolic links
Resolve(path) == normpath(path)

\* os.path.isdir
isdir(path) == Resolve(path) \in DOMAIN FS /\ FS[Resolve(path)].kind = "dir"

\* os.path.isfile, and whether open(path, 'rb') succeeds: a path with a
\* trailing slash never names a regular file
isfile(path) ==
    /\ ~endswith(path, "/")
    /\ Resolve(path) \in DOMAIN FS
    /\ FS[Resolve(path)].kind = "file"

\* os.path.join(path, word) for a word without a slash
os_path_join(path, word) ==
    IF endswith(path, "/") THEN path \o word ELSE path \o <<"/">> \o word

----------------------------------------------------------------------------
(* SimpleHTTPRequestHandler                                                *)

\* variant of JoinWords: '.' and '..' components are joined like any other
RECURSIVE JoinWords_keep_dots(_, _)
JoinWords_keep_dots(path, words) ==
    IF words = <<>> THEN path
    ELSE JoinWords_keep_dots(os_path_join(path, Head(words)), Tail(words))

\* the loop of translate_path: components that are not a simple file or
\* directory name are ignored
RECURSIVE JoinWords(_, _)
JoinWords(path, words) ==
    IF words = <<>> THEN path
    ELSE IF Head(words) \in {Dot, DotDot}
    THEN JoinWords(path, Tail(words))
    ELSE JoinWords(os_path_join(path, Head(words)), Tail(words))

\* variant of translate_path built on JoinWords_keep_dots
translate_path_keep_dots(path) ==
    LET noquery == SplitFirst(SplitFirst(path, "?"), "#")
        trailing_slash == endswith(noquery, "/")
        words == SelectSeq(split(normpath(unquote(noquery)), "/"),
                           LAMBDA w : w # <<>>)
        joined == JoinWords_keep_dots(cwd, words)
    IN  IF trailing_slash THEN joined \o <<"/">> ELSE joined

\* SimpleHTTPRequestHandler.translate_path
translate_path(path) ==
    LET noquery == SplitFirst(SplitFirst(path, "?"), "#")
        trailing_slash == endswith(noquery, "/")
        words == SelectSeq(split(normpath(unquote(noquery)), "/"),
                           LAMBDA w : w # <<>>)
        joined == JoinWords(cwd, words)
    IN  IF trailing_slash THEN joined \o <<"/">> ELSE joined

NoFile == <<>>

\* what a client receives: code is the status passed to send_response,
\* headers tells whether the status line and headers are transmitted (they
\* are not while request_version is HTTP/0.9), file is the path of the file
\* whose bytes make the body
Response(code, headers, ctype, body, file) ==
    [code |-> code, headers |-> headers,
     ctype |-> IF headers THEN ctype ELSE "", body |-> body, file |-> file]

\* nothing is written to the connection
NoResponse == Response(0, FALSE, "", "", NoFile)

\* BaseHTTPRequestHandler.send_error
send_error(code, command, request_version) ==
    Response(code, request_version # "HTTP/0.9", "text/html;charset=utf-8",
             IF command # "HEAD" /\ code >= 200 /\ code \notin {204, 205, 304}
             THEN "error page" ELSE "",
             NoFile)

\* variant of send_head: a path that cannot be opened is answered like an
\* empty file instead of 404
send_head_no_404(command, urlpath, request_version, map, mimetypesFallback) ==
    LET path == translate_path(urlpath)
        hdrs == request_version # "HTTP/0.9"
        index == IF isfile(os_path_join(path, <<"i","n","d","e","x",".","h","t","m","l">>))
                 THEN os_path_join(path, <<"i","n","d","e","x",".","h","t","m","l">>)
                 ELSE IF isfile(os_path_join(path, <<"i","n","d","e","x",".","h","t","m">>))
                 THEN os_path_join(path, <<"i","n","d","e","x",".","h","t","m">>)
                 ELSE <<>>
        target == IF isdir(path) /\ index # <<>> THEN index ELSE path
    IN  IF isdir(path) /\ ~endswith(SplitFirst(SplitFirst(urlpath, "#"), "?"), "/")
        THEN Response(301, hdrs, "", "", NoFile)
        ELSE IF isdir(path) /\ index = <<>>
        THEN Response(200, hdrs, "text/html; charset=utf-8",
                      IF command = "HEAD" THEN "" ELSE "directory listing", NoFile)
        ELSE IF endswith(target, "/") \/ ~isfile(target)
        THEN Response(200, hdrs, guess_type(target, map, mimetypesFallback), "", NoFile)
        ELSE Response(200, hdrs, guess_type(target, map, mimetypesFallback),
                      IF command = "HEAD" THEN "" ELSE FS[Resolve(target)].data,
                      IF command = "HEAD" THEN NoFile ELSE Resolve(target))

\* SimpleHTTPRequestHandler.send_head followed by the copy of do_GET (or
\* the close of do_HEAD)
send_head(command, urlpath, request_version, map, mimetypesFallback) ==
    LET path == translate_path(urlpath)
        hdrs == request_version # "HTTP/0.9"
        index == IF isfile(os_path_join(path, <<"i","n","d","e","x",".","h","t","m","l">>))
                 THEN os_path_join(path, <<"i","n","d","e","x",".","h","t","m","l">>)
                 ELSE IF isfile(os_path_join(path, <<"i","n","d","e","x",".","h","t","m">>))
                 THEN os_path_join(path, <<"i","n","d","e","x",".","h","t","m">>)
                 ELSE <<>>
        target == IF isdir(path) /\ index # <<>> THEN index ELSE path
    IN  IF isdir(path) /\ ~endswith(SplitFirst(SplitFirst(urlpath, "#"), "?"), "/")
        THEN Response(301, hdrs, "", "", NoFile)
        ELSE IF isdir(path) /\ index = <<>>
        THEN Response(200, hdrs, "text/html; charset=utf-8",
                      IF command = "HEAD" THEN "" ELSE "directory listing", NoFile)
        ELSE IF endswith(target, "/") \/ ~isfile(target)
        THEN send_error(404, command, request_version)
        ELSE Response(200, hdrs, guess_type(target, map, mimetypesFallback),
                      IF command = "HEAD" THEN "" ELSE FS[Resolve(target)].data,
                      IF command = "HEAD" THEN NoFile ELSE Resolve(target))

----------------------------------------------------------------------------
(* Requests                                                                *)

\* A client connection's input: raw is "line" (a request line arrives),
\* "eof" (the client closes without sending) or "reset" (the read fails
\* with ConnectionResetError); nwords, command, path and version are the
\* request line split on white space.
Request(raw, nwords, command, path, version) ==
    [raw |-> raw, nwords |-> nwords, command |-> command, path |-> path,
     version |-> version]

\* the URL paths clients ask for
Urls == {
    <<"/", "a", ".", "w", "a", "s", "m">>,
    <<"/", "a", ".", "j", "s">>,
    <<"/", "a", ".", "h", "t", "m", "l">>,
    <<"/", "a", ".", "p", "n", "g">>,
    <<"/", "a", ".", "j", "p", "g">>,
    <<"/", "a", ".", "s", "v", "g">>,
    <<"/", "a", ".", "c", "s", "s">>,
    <<"/", "a", ".", "m", "a", "n", "i", "f", "e", "s", "t">>,
    <<"/", "n", ".", "t", "x", "t">>,
    <<"/", "R", "E", "A", "D", "M", "E">>,
    <<"/", "A", ".", "W", "A", "S", "M">>,
    <<"/", ".", "j", "s">>,
    <<"/", "m", ".", "h", "t", "m", "l">>,
    <<"/", ".", ".", "/", "s", "e", "c", "r", "e", "t", ".", "t", "x", "t">>,
    <<".", ".", "/", "s", "e", "c", "r", "e", "t", ".", "t", "x", "t">>,
    <<"/", ".", ".", "/", "n", ".", "t", "x", "t">>,
    <<"/", "%", "2", "e", "%", "2", "e", "/", "s", "e", "c", "r", "e", "t", ".", "t", "x", "t">>,
    <<"/", "d">>,
    <<"/", "d", "/">>,
    <<"/", "e", "/">>,
    <<"/", "a", ".", "j", "s", "/">>,
    <<"/", "a", ".", "j", "s", "?", "q">> }

\* HTTP/1.x request lines for every URL, other methods, malformed lines and
\* broken connections
Requests ==
    {Request("line", 3, "GET", u, "HTTP/1.0") : u \in Urls} \cup
    { Request("line", 3, "HEAD", <<"/", "a", ".", "j", "s">>, "HTTP/1.0"),
      Request("line", 3, "POST", <<"/", "a", ".", "j", "s">>, "HTTP/1.0"),
      Request("line", 1, "GET", <<>>, ""),
      Request("line", 3, "GET", <<"/", "a", ".", "j", "s">>, "FOO"),
      Request("line", 3, "GET", <<"/", "a", ".", "j", "s">>, "HTTP/2.0"),
      Request("eof", 0, "", <<>>, ""),
      Request("reset", 0, "", <<>>, "") }

\* the version tokens parse_request accepts, and those of them >= (2, 0)
WellFormedVersions == {"HTTP/1.0", "HTTP/1.1", "HTTP/2.0"}
UnsupportedVersions == {"HTTP/2.0"}

\* the handler raises an exception that is not caught inside the handler
Raises(req) == req.raw = "reset"

\* BaseHTTPRequestHandler.handle_one_request: parse_request, the dispatch
\* on do_<command>, do_GET and do_HEAD
handle_one_request(req, map, mimetypesFallback) ==
    IF req.raw # "line" \/ req.nwords = 0 THEN NoResponse
    ELSE IF req.nwords >= 3 /\ req.version \notin WellFormedVersions
    THEN send_error(400, "", "HTTP/0.9")
    ELSE IF req.nwords >= 3 /\ req.version \in UnsupportedVersions
    THEN send_error(505, "", "HTTP/0.9")
    ELSE IF req.nwords < 2 \/ req.nwords > 3
    THEN send_error(400, "", IF req.nwords >= 3 THEN req.version ELSE "HTTP/0.9")
    ELSE IF req.nwords = 2 /\ req.command # "GET"
    THEN send_error(400, "", "HTTP/0.9")
    ELSE LET request_version == IF req.nwords = 3 THEN req.version ELSE "HTTP/0.9"
         IN  IF req.command \notin {"GET", "HEAD"}
             THEN send_error(501, req.command, request_version)
             ELSE send_head(req.command, req.path, request_version, map,
                            mimetypesFallback)

----------------------------------------------------------------------------
(* The script                                                              *)

Init ==
    /\ pc = "L21"
    /\ PORT = 8080
    /\ usesMimetypes \in BOOLEAN
    /\ extensions_map = LibraryDefaultMap(usesMimetypes)
    /\ portState \in {"free", "in_use", "denied"}
    /\ socketState = "none"
    /\ binds = 0
    /\ stdout = <<>>
    /\ exitStatus = -1
    /\ backlog = <<>>
    /\ active = {}
    /\ nextId = 1
    /\ accepted = <<>>
    /\ answered = <<>>
    /\ responses = EmptyBag

\* lines 21-32: Handler.extensions_map = {...}
AssignExtensionsMap ==
    /\ pc = "L21"
    /\ extensions_map' = ExtTable
    /\ pc' = "L34"
    /\ UNCHANGED <<PORT, usesMimetypes, portState, socketState, binds,
                   stdout,
                   exitStatus, backlog, active, nextId, accepted, answered,
                   responses>>

\* line 34, TCPServer.__init__: server_bind and server_activate succeed
BindOk ==
    /\ pc = "L34"
    /\ portState = "free"
    /\ socketState' = "listening"
    /\ binds' = binds + 1
    /\ pc' = "L36"
    /\ UNCHANGED <<PORT, extensions_map, usesMimetypes, portState, stdout,
                   exitStatus, backlog, active, nextId, accepted, answered,
                   responses>>

\* variant of BindFail: the OSError is swallowed and the script goes on
BindFail_swallowed ==
    /\ pc = "L34"
    /\ portState # "free"
    /\ socketState' = "closed"
    /\ binds' = binds + 1
    /\ pc' = "L36"
    /\ UNCHANGED <<PORT, extensions_map, usesMimetypes, portState, stdout,
                   exitStatus, backlog, active, nextId, accepted, answered,
                   responses>>

\* line 34, TCPServer.__init__: bind raises OSError, the constructor closes
\* the socket and re-raises, the uncaught exception ends the process
BindFail ==
    /\ pc = "L34"
    /\ portState # "free"
    /\ socketState' = "closed"
    /\ binds' = binds + 1
    /\ exitStatus' = 1
    /\ pc' = "exited"
    /\ UNCHANGED <<PORT, extensions_map, usesMimetypes, portState, stdout,
                   backlog, active, nextId, accepted, answered, responses>>

\* line 36: print("serving at port", PORT)
PrintServing ==
    /\ pc = "L36"
    /\ stdout' = Append(stdout, <<"serving at port", PORT>>)
    /\ pc' = "select"
    /\ UNCHANGED <<PORT, extensions_map, usesMimetypes, portState, socketState,
                   binds, exitStatus, backlog, active, nextId, accepted, answered,
                   responses>>

\* a client connects: the kernel queues the connection on the listening
\* socket, whatever the script is doing
ClientConnect(req) ==
    /\ socketState = "listening"
    /\ nextId <= MaxConns
    /\ Len(backlog) < MaxBacklog
    /\ backlog' = Append(backlog, [id |-> nextId, req |-> req])
    /\ nextId' = nextId + 1
    /\ UNCHANGED <<pc, PORT, extensions_map, usesMimetypes, portState,
                   socketState, binds, stdout, exitStatus, active, accepted, answered,
                   responses>>

\* variant of GetRequest: a connection is accepted while another one is
\* still being handled (as with ThreadingMixIn)
GetRequest_concurrent ==
    /\ pc \in {"select", "process"}
    /\ backlog # <<>>
    /\ active' = active \cup {Head(backlog)}
    /\ accepted' = Append(accepted, Head(backlog).id)
    /\ backlog' = Tail(backlog)
    /\ pc' = "process"
    /\ UNCHANGED <<PORT, extensions_map, usesMimetypes, portState, socketState,
                   binds, stdout, exitStatus, nextId, answered, responses>>

\* line 37, serve_forever: select reports the socket readable and
\* _handle_request_noblock calls get_request (accept)
GetRequest ==
    /\ pc = "select"
    /\ backlog # <<>>
    /\ active' = active \cup {Head(backlog)}
    /\ accepted' = Append(accepted, Head(backlog).id)
    /\ backlog' = Tail(backlog)
    /\ pc' = "process"
    /\ UNCHANGED <<PORT, extensions_map, usesMimetypes, portState, socketState,
                   binds, stdout, exitStatus, nextId, answered, responses>>

\* variant of handle_request_noblock: an exception out of the handler is
\* not caught and ends the process
handle_request_noblock_uncaught(conn) ==
    /\ responses' = responses (+) SetToBag({
           [req |-> conn.req,
            resp |-> IF Raises(conn.req) THEN NoResponse
                     ELSE handle_one_request(conn.req, extensions_map,
                                             usesMimetypes)]})
    /\ active' = active \ {conn}
    /\ answered' = Append(answered, conn.id)
    /\ pc' = IF Raises(conn.req) THEN "exited" ELSE "select"
    /\ exitStatus' = IF Raises(conn.req) THEN 1 ELSE exitStatus
    /\ socketState' = IF Raises(conn.req) THEN "closed" ELSE socketState
    /\ UNCHANGED <<PORT, extensions_map, usesMimetypes, portState,
                   binds, stdout, backlog, nextId, accepted>>

\* variant of handle_request_noblock: the handler takes the entry it looked
\* up out of the shared table (dict.pop instead of dict.get)
handle_request_noblock_pop(conn) ==
    /\ responses' = responses (+) SetToBag({
           [req |-> conn.req,
            resp |-> IF Raises(conn.req) THEN NoResponse
                     ELSE handle_one_request(conn.req, extensions_map,
                                             usesMimetypes)]})
    /\ extensions_map' =
           [k \in DOMAIN extensions_map \
                 ({splitext(translate_path(conn.req.path))[2]} \ {<<>>})
               |-> extensions_map[k]]
    /\ active' = active \ {conn}
    /\ answered' = Append(answered, conn.id)
    /\ pc' = "select"
    /\ UNCHANGED <<PORT, usesMimetypes, portState, socketState,
                   binds, stdout, exitStatus, backlog, nextId, accepted>>

\* line 37, the rest of _handle_request_noblock for connection conn:
\* process_request runs the handler to completion and shuts the connection
\* down; an exception out of the handler goes to handle_error, the
\* connection is shut down and the loop goes on
handle_request_noblock(conn) ==
    /\ responses' = responses (+) SetToBag({
           [req |-> conn.req,
            resp |-> IF Raises(conn.req) THEN NoResponse
                     ELSE handle_one_request(conn.req, extensions_map,
                                             usesMimetypes)]})
    /\ active' = active \ {conn}
    /\ answered' = Append(answered, conn.id)
    /\ pc' = "select"
    /\ UNCHANGED <<PORT, extensions_map, usesMimetypes, portState, socketState,
                   binds, stdout, exitStatus, backlog, nextId, accepted>>

ProcessRequest ==
    /\ pc = "process"
    /\ \E conn \in active : handle_request_noblock(conn)

Next ==
    \/ AssignExtensionsMap
    \/ BindOk
    \/ BindFail
    \/ PrintServing
    \/ \E req \in Requests : ClientConnect(req)
    \/ GetRequest
    \/ ProcessRequest

Spec == Init /\ [][Next]_vars

----------------------------------------------------------------------------
(* Vocabulary of the properties                                            *)

\* the [req, resp] pairs clients have observed so far
Seen == BagToSet(responses)

\* the content-type table of the specification (section 6)
TabulatedTypes ==
    (<<".", "m", "a", "n", "i", "f", "e", "s", "t">> :> "text/cache-manifest") @@
    (<<".", "h", "t", "m", "l">> :> "text/html") @@
    (<<".", "p", "n", "g">> :> "image/png") @@
    (<<".", "j", "p", "g">> :> "image/jpg") @@
    (<<".", "s", "v", "g">> :> "image/svg+xml") @@
    (<<".", "c", "s", "s">> :> "text/css") @@
    (<<".", "j", "s">> :> "application/x-javascript") @@
    (<<".", "w", "a", "s", "m">> :> "application/wasm") @@
    (<<>> :> "application/octet-stream")

TabulatedExtensions == DOMAIN TabulatedTypes \ {<<>>}

\* a well-formed HTTP/1.x GET request line
Http1Get(req) ==
    /\ req.raw = "line"
    /\ req.nwords = 3
    /\ req.command = "GET"
    /\ req.version \in {"HTTP/1.0", "HTTP/1.1"}

\* the URL path taken literally below the served root
UrlFile(req) == cwd \o req.path

\* a GET whose URL path is literally the name of a regular file under the root
GetsExistingFile(req) ==
    /\ Http1Get(req)
    /\ startswith(req.path, "/")
    /\ UrlFile(req) \in DOMAIN FS
    /\ FS[UrlFile(req)].kind = "file"

FileName(p) == SubSeq(p, rfind(p, "/") + 1, Len(p))

HasSuffix(s, suffix) ==
    /\ Len(s) >= Len(suffix)
    /\ SubSeq(s, Len(s) - Len(suffix) + 1, Len(s)) = suffix

\* the extension in the words of the specification: from the last '.' of
\* the file name to the end, empty when the name has no '.'
LastDotExt(name) ==
    IF rfind(name, ".") = 0 THEN <<>> ELSE SubSeq(name, rfind(name, "."), Len(name))

InsideRoot(p) ==
    /\ Len(p) > Len(cwd) + 1
    /\ SubSeq(p, 1, Len(cwd) + 1) = cwd \o <<"/">>

\* the contents of the regular files outside the served root
OutsideBodies ==
    {FS[p].data : p \in {q \in DOMAIN FS : FS[q].kind = "file" /\ ~InsideRoot(q)}}

\* the URL path, decoded and taken literally below the root, leaves the root
Traverses(req) ==
    /\ Http1Get(req)
    /\ ~InsideRoot(Resolve(cwd \o <<"/">>
                           \o unquote(SplitFirst(SplitFirst(req.path, "?"), "#"))))

\* the path the handler resolves names neither a file nor a directory
NamesNothing(req) ==
    /\ Http1Get(req)
    /\ ~isfile(translate_path(req.path))
    /\ ~isdir(translate_path(req.path))

\* the request got an error status, no answer at all, or broke the handler
Failed(e) == e.resp.code >= 400 \/ e.resp.code = 0 \/ Raises(e.req)

\* the file is answered with status 200 and its own bytes
ServedOk(e) ==
    /\ e.resp.code = 200
    /\ e.resp.headers
    /\ e.resp.file = UrlFile(e.req)
    /\ e.resp.body = FS[UrlFile(e.req)].data

\* a step taken by a serving process leaves it serving, and leaves every
\* GET for an existing file answered 200
KeepsServingStep ==
    pc \in {"select", "process"}
    => /\ pc' \in {"select", "process"}
       /\ socketState' = "listening"
       /\ exitStatus' = -1
       /\ \A e \in BagToSet(responses') :
              GetsExistingFile(e.req) => (e.resp.code = 200 /\ e.resp.headers)

----------------------------------------------------------------------------
(* Properties                                                              *)

\* C1 as stated: a GET for an existing regular file whose name ends in a
\* tabulated extension E is answered 200 with the Content-Type tabulated
\* for E and the file's bytes.
C1_AsStated ==
    \A e \in Seen : \A E \in TabulatedExtensions :
        (GetsExistingFile(e.req) /\ HasSuffix(FileName(UrlFile(e.req)), E))
        => (ServedOk(e) /\ e.resp.ctype = TabulatedTypes[E])

\* C1 amended: the same, for file names that have a character other than
\* '.' before the extension (a name such as '.js' has no extension).
C1_TabulatedTypes ==
    \A e \in Seen : \A E \in TabulatedExtensions :
        (/\ GetsExistingFile(e.req)
         /\ HasSuffix(FileName(UrlFile(e.req)), E)
         /\ \E k \in 1..(Len(FileName(UrlFile(e.req))) - Len(E)) :
                FileName(UrlFile(e.req))[k] # ".")
        => (ServedOk(e) /\ e.resp.ctype = TabulatedTypes[E])

C1_Witness ==
    \E e \in Seen :
        /\ e.req.path = <<"/", "a", ".", "w", "a", "s", "m">>
        /\ e.resp.code = 200
        /\ e.resp.ctype = "application/wasm"
        /\ e.resp.body = "wasm bytes"

\* C2: a GET for an existing regular file whose extension is not a key of
\* the mapping (also not when lower-cased, which is the case of C9), or that
\* has no extension, is answered with the default type
\* application/octet-stream.
C2_DefaultType ==
    \A e \in Seen :
        (/\ GetsExistingFile(e.req)
         /\ LastDotExt(FileName(UrlFile(e.req))) \notin TabulatedExtensions
         /\ lower(LastDotExt(FileName(UrlFile(e.req)))) \notin TabulatedExtensions)
        => e.resp.ctype = "application/octet-stream"

\* C3: a GET whose resolved path names no existing file or directory is
\* answered 404 with an error body and no file content.
C3_MissingIs404 ==
    \A e \in Seen :
        NamesNothing(e.req)
        => /\ e.resp.code = 404
           /\ e.resp.headers
           /\ e.resp.body = "error page"
           /\ e.resp.file = NoFile

C3_Witness ==
    \E e \in Seen :
        /\ e.req.path = <<"/", "m", ".", "h", "t", "m", "l">>
        /\ e.resp.code = 404

\* C4 as stated: a GET whose path traverses out of the served root is
\* answered 403 or 404, and every file served lies inside the root.
C4_AsStated ==
    \A e \in Seen :
        /\ Traverses(e.req) => e.resp.code \in {403, 404}
        /\ e.resp.file # NoFile => InsideRoot(e.resp.file)

\* C4 amended: the '..' components of such a path are ignored and the rest
\* is resolved inside the served root: the answer is 404 unless that names
\* an entry inside the root, which is then served; the body is never the
\* content of a file outside the root and every file served lies inside it.
C4_NeverOutsideRoot ==
    \A e \in Seen :
        /\ Traverses(e.req)
           => /\ e.resp.body \notin OutsideBodies
              /\ \/ e.resp.code = 404 /\ e.resp.file = NoFile
                 \/ e.resp.code = 200 /\ InsideRoot(e.resp.file)
        /\ e.resp.file # NoFile
           => /\ InsideRoot(e.resp.file)
              /\ e.resp.file \in DOMAIN FS
              /\ e.resp.body = FS[e.resp.file].data

C4_Witness ==
    /\ \E e \in Seen : Traverses(e.req) /\ e.resp.code = 200
    /\ \E e \in Seen : Traverses(e.req) /\ e.resp.code = 404

\* C5: once the server is in its accept loop it stays there whatever the
\* requests do, and every GET for an existing file is answered 200 with the
\* file, whatever was requested before.
C5_KeepsServing == [][KeepsServingStep]_vars

C5_Witness ==
    /\ pc = "select"
    /\ \E e \in Seen : Raises(e.req)
    /\ \E e \in Seen : GetsExistingFile(e.req) /\ e.resp.code = 200

\* C6: the serving message is printed only after a successful bind and
\* before any connection is accepted; when the bind fails the process ends
\* with a non-zero status, binds only once, prints nothing and accepts
\* nothing.
C6_StartupOrder ==
    /\ binds <= 1
    /\ stdout # <<>>
       => /\ stdout = << <<"serving at port", 8080>> >>
          /\ binds = 1
          /\ socketState = "listening"
    /\ accepted # <<>> => stdout # <<>>
    /\ (portState # "free" /\ binds > 0)
       => /\ pc = "exited"
          /\ exitStatus > 0
          /\ socketState # "listening"
          /\ stdout = <<>>
          /\ accepted = <<>>
          /\ backlog = <<>>

C6_Witness ==
    /\ portState = "in_use"
    /\ pc = "exited"
    /\ exitStatus = 1
    /\ stdout = <<>>

C8_ConfigurationFixed ==
    pc # "L21"
    => /\ extensions_map = TabulatedTypes
       /\ Cardinality(DOMAIN extensions_map) = 9
       /\ PORT = 8080

C8_Witness ==
    /\ Len(answered) >= 2
    /\ \E e \in Seen : Failed(e)
    /\ \E e \in Seen : e.resp.code = 200
    /\ extensions_map = TabulatedTypes

\* C9 as stated: a file whose extension differs from a table key only in
\* letter case is answered with the default type application/octet-stream.
C9_AsStated ==
    \A e \in Seen :
        (/\ GetsExistingFile(e.req)
         /\ LastDotExt(FileName(UrlFile(e.req))) \notin TabulatedExtensions
         /\ lower(LastDotExt(FileName(UrlFile(e.req)))) \in TabulatedExtensions)
        => e.resp.ctype = "application/octet-stream"

\* C9 amended: the extension is looked up as written and, when that is not
\* a key, lower-cased: such a file is answered with the type tabulated for
\* the lower-case extension.
C9_LowerCaseFallback ==
    \A e \in Seen :
        (/\ GetsExistingFile(e.req)
         /\ LastDotExt(FileName(UrlFile(e.req))) \notin TabulatedExtensions
         /\ lower(LastDotExt(FileName(UrlFile(e.req)))) \in TabulatedExtensions)
        => /\ e.resp.code = 200
           /\ e.resp.ctype = TabulatedTypes[lower(LastDotExt(FileName(UrlFile(e.req))))]

C9_Witness ==
    \E e \in Seen :
        /\ e.req.path = <<"/", "A", ".", "W", "A", "S", "M">>
        /\ e.resp.ctype = "application/wasm"
        /\ e.resp.body = "upper wasm bytes"

\* C10: at most one connection is being handled at any moment, the next one
\* is accepted only after the current one is completed, and connections are
\* answered in the order they were accepted.
C10_Sequential ==
    /\ Cardinality(active) <= 1
    /\ pc = "select" => active = {}
    /\ Len(accepted) <= Len(answered) + 1
    /\ answered = SubSeq(accepted, 1, Len(answered))
    /\ \A i \in 1..Len(accepted) : accepted[i] = i

C10_Witness ==
    /\ pc = "process"
    /\ active # {}
    /\ backlog # <<>>

====
